---- MODULE Spec2Model ----
(***************************************************************************)
(* Model of the state_machine framework: node and machine decoration, the  *)
(* validator (AbstractMachine.validate), the machine helpers (success,     *)
(* failure, exception, exit), the exception barrier (handle_exceptions)    *)
(* and the driver loop (AbstractMachine.execute).                          *)
(***************************************************************************)
EXTENDS Integers, Sequences, FiniteSets, TLC

\* ------------------------------------------------------------------ bounds
\* Longest results log explored; execute() is not started, and a node is
\* not run, once the log has this many entries.
MaxResults == 3
\* Number of execute() calls explored on one machine instance.
MaxCalls == 2
\* Longest Result list handed to an EndPoint.
MaxReturned == 257

\* ------------------------------------------------------- names and values
\* The node methods of the machine under exploration.  report_results is the
\* node every machine inherits from AbstractMachine (or overrides).
NodeNames == {"entry", "work", "report_results"}

\* inspect.getmembers lists the members of the class sorted by name.
NodeOrder == <<"entry", "report_results", "work">>

\* The node methods of MachineArchiveEncrypted, and their order among the
\* members of the class.
ArchiveNodeNames ==
    {"ensure_staging_directory", "copy_to_staging", "encrypt_file", "ensure_archive_directory",
     "move_to_archive", "remove_copied_file", "remove_encrypted_file", "report_results"}

ArchiveOrder ==
    <<"copy_to_staging", "encrypt_file", "ensure_archive_directory", "ensure_staging_directory",
      "move_to_archive", "remove_copied_file", "remove_encrypted_file", "report_results">>

\* Attributes of the machine that are bound methods but not nodes.
MethodNames == {"exit"}

\* __class__.__name__ of the machine and the value of its failure_prefix hook
\* (the machines of the test-suite are called Machine and return "Machine").
MachineTypeName == "Machine"

failure_prefix == "Machine"

InSeq(x, s) == \E i \in 1..Len(s) : s[i] = x

IsPrefix(s, t) == Len(s) <= Len(t) /\ SubSeq(t, 1, Len(s)) = s

\* ------------------------------------------------------------ result.py
Success(node) == [type |-> "Success", node |-> node]

Failure(node, message) == [type |-> "Failure", node |-> node, message |-> message]

\* -------------------------------------------------------- transition.py
Transition(result, exit_to) == [cls |-> "Transition", result |-> result, exit_to |-> exit_to]

Exit(result) == [cls |-> "Exit", result |-> result]

\* The value of a body that falls off its end.
None == [cls |-> "NoneType"]

\* --------------------------------------------- references handed to exit_to
\* self.<node>: a bound method that carries the node metadata.
NodeRef(n) == [kind |-> "node", name |-> n]

\* self.<method>: a bound method of the machine that is not a node.
MethodRef(n) == [kind |-> "method", name |-> n]

\* Any other value (here the name of a node as a string).
StrRef(n) == [kind |-> "str", name |-> n]

ismethod(ref) == ref.kind \in {"node", "method"}

has_is_node(ref) == ref.kind = "node"

callable(ref) == ref.kind \in {"node", "method"}

\* Outcome of a call: a returned value or a raised exception.
Return(v) == [raised |-> FALSE, value |-> v]

Raise(type, msg) == [raised |-> TRUE, type |-> type, msg |-> msg]

\* ------------------------------------------------ decorator/node.py et al.
\* The tuple reserved_method_names of node, as the source spells it.
reserved_method_names ==
    {"validate", "excetion", "exit", "failure", "execute", "success", "failure_prefix",
     "logger", "master_config", "my_config", "node_name", "state"}

\* What node raises for a function with name f.name and docstring f.doc,
\* "ok" when it returns the function.
node_raises(f) ==
    IF f.name \in reserved_method_names THEN "OverrideError"
    ELSE IF ~f.doc.present THEN "MissingDocStringError"
    ELSE IF ~f.doc.mapping THEN "AttributeError"
    ELSE IF f.doc.overview = "" THEN "MissingOverviewError"
    ELSE "ok"

\* What machine raises for a class with docstring doc before it collects the
\* nodes, "ok" when it goes on: the two checks are made in debug builds
\* only, and doc.get is called on whatever yaml.load returned.
machine_raises(doc, dbg) ==
    IF dbg /\ ~doc.present THEN "MissingDocStringError"
    ELSE IF ~doc.present \/ ~doc.mapping THEN "AttributeError"
    ELSE IF dbg /\ doc.overview = "" THEN "MissingOverviewError"
    ELSE "ok"

node(doc) ==
    [ node_name |-> doc.name,
      is_entry |-> doc.is_entry,
      is_terminal |-> doc.is_terminal,
      overview |-> doc.overview,
      happy_paths |-> doc.happy_paths,
      unhappy_paths |-> doc.unhappy_paths,
      exits |-> doc.happy_paths \o doc.unhappy_paths,
      invokes_machine |-> doc.invokes_machine,
      has_exception_handling |-> "unset",
      on_exception |-> "",
      wrapped |-> FALSE ]

no_exceptions(func) == [func EXCEPT !.has_exception_handling = "false"]

\* handle_exceptions whose wrapper copies the happy paths as the exits.
handle_exceptions_happy_exits(on_exception, func) ==
    [ node_name |-> func.node_name,
      is_entry |-> func.is_entry,
      is_terminal |-> func.is_terminal,
      overview |-> func.overview,
      happy_paths |-> func.happy_paths,
      unhappy_paths |-> func.unhappy_paths,
      exits |-> func.happy_paths,
      invokes_machine |-> func.invokes_machine,
      has_exception_handling |-> "true",
      on_exception |-> on_exception,
      wrapped |-> TRUE ]

\* The function try_ the wrapper returns: wrapped says that calling the
\* node now goes through the try block; the other fields are the
\* attributes the wrapper copies from func or sets.
handle_exceptions(on_exception, func) ==
    [ node_name |-> func.node_name,
      is_entry |-> func.is_entry,
      is_terminal |-> func.is_terminal,
      overview |-> func.overview,
      happy_paths |-> func.happy_paths,
      unhappy_paths |-> func.unhappy_paths,
      exits |-> func.exits,
      invokes_machine |-> func.invokes_machine,
      has_exception_handling |-> "true",
      on_exception |-> on_exception,
      wrapped |-> TRUE ]

\* The decorations written above a node method, innermost (@node) first.
Decorate(doc) ==
    CASE doc.decor = "none" -> node(doc)
      [] doc.decor = "no_exceptions" -> no_exceptions(node(doc))
      [] doc.decor = "handle_exceptions" -> handle_exceptions(doc.x, node(doc))
      [] doc.decor = "both" -> no_exceptions(handle_exceptions(doc.x, node(doc)))

\* --------------------------------------------- decorator/machine.py: lists
\* inspect.getmembers(cls) restricted to the node methods of class m.
members(m) == IF DOMAIN m = ArchiveNodeNames THEN ArchiveOrder ELSE NodeOrder

entry_nodes(m) == SelectSeq(members(m), LAMBDA n : m[n].is_entry)

terminal_nodes(m) == SelectSeq(members(m), LAMBDA n : m[n].is_terminal)

interior_nodes(m) == SelectSeq(members(m), LAMBDA n : ~m[n].is_entry /\ ~m[n].is_terminal)

\* ------------------------------------------- AbstractMachine.validate
all_nodes(m) == entry_nodes(m) \o interior_nodes(m) \o terminal_nodes(m)

\* hasattr(cls, name)
hasattr_cls(m, name) == name \in DOMAIN m \cup MethodNames

\* The first entry of errs that is an error, "ok" when none is: a for loop
\* of validate raises at the first node that fails its check.
FirstError(errs) ==
    IF \A i \in 1..Len(errs) : errs[i] = "ok" THEN "ok"
    ELSE errs[CHOOSE i \in 1..Len(errs) :
                /\ errs[i] # "ok"
                /\ \A j \in 1..(i - 1) : errs[j] = "ok"]

\* Lines 90-98: every exit path names an attribute of the class, and that
\* attribute carries __node_name__.
RECURSIVE check_paths(_, _)
check_paths(m, paths) ==
    IF paths = <<>> THEN "ok"
    ELSE IF ~hasattr_cls(m, Head(paths)) THEN "UndefinedNodeError"
    ELSE IF Head(paths) \notin DOMAIN m THEN "AttributeError"
    ELSE check_paths(m, Tail(paths))

check_exits(m, n) == check_paths(m, m[n].exits)

\* The names collected in the local list exits of validate.
collected_exits(m) == UNION {{m[n].exits[i] : i \in 1..Len(m[n].exits)} : n \in DOMAIN m}

\* Lines 101-112 without the test of on_exception.
check_exception_handling_any_route(m, n) ==
    IF m[n].has_exception_handling = "unset" THEN "NoExceptionHandlingError"
    ELSE "ok"

\* Lines 101-112 without the test for a missing policy.
check_exception_handling_unset_ok(m, n) ==
    IF m[n].has_exception_handling = "true"
       /\ ~InSeq(m[n].on_exception, m[n].unhappy_paths) THEN "IllegalTransitionError"
    ELSE "ok"

\* Lines 101-112.
check_exception_handling(m, n) ==
    IF m[n].has_exception_handling = "unset" THEN "NoExceptionHandlingError"
    ELSE IF m[n].has_exception_handling = "true"
            /\ ~InSeq(m[n].on_exception, m[n].unhappy_paths) THEN "IllegalTransitionError"
    ELSE "ok"

\* Lines 114-125 without the test of the terminal nodes' exits.
check_reachable_only(m, n) ==
    IF ~m[n].is_entry /\ n \notin collected_exits(m) THEN "UnreachableNodeError"
    ELSE "ok"

\* Lines 114-125.
check_reachable_terminal(m, n) ==
    IF ~m[n].is_entry /\ n \notin collected_exits(m) THEN "UnreachableNodeError"
    ELSE IF m[n].is_terminal /\ m[n].exits # <<>> THEN "NotTerminalNodeError"
    ELSE "ok"

\* validate without the test for a second entry node.
validate_first_entry(m) ==
    IF entry_nodes(m) = <<>> THEN "NoEntryNodeError"
    ELSE IF terminal_nodes(m) = <<>> THEN "NoTerminalNodeError"
    ELSE FirstError(
           [i \in 1..Len(all_nodes(m)) |-> check_exits(m, all_nodes(m)[i])]
           \o [i \in 1..Len(all_nodes(m)) |-> check_exception_handling(m, all_nodes(m)[i])]
           \o [i \in 1..Len(all_nodes(m)) |-> check_reachable_terminal(m, all_nodes(m)[i])])

\* validate without the terminal-node count (lines 81-83 left out).
validate_any_terminals(m) ==
    IF entry_nodes(m) = <<>> THEN "NoEntryNodeError"
    ELSE IF Len(entry_nodes(m)) > 1 THEN "MultipleEntryNodeError"
    ELSE FirstError(
           [i \in 1..Len(all_nodes(m)) |-> check_exits(m, all_nodes(m)[i])]
           \o [i \in 1..Len(all_nodes(m)) |-> check_exception_handling(m, all_nodes(m)[i])]
           \o [i \in 1..Len(all_nodes(m)) |-> check_reachable_terminal(m, all_nodes(m)[i])])

validate(m) ==
    IF entry_nodes(m) = <<>> THEN "NoEntryNodeError"
    ELSE IF Len(entry_nodes(m)) > 1 THEN "MultipleEntryNodeError"
    ELSE IF terminal_nodes(m) = <<>> THEN "NoTerminalNodeError"
    ELSE FirstError(
           [i \in 1..Len(all_nodes(m)) |-> check_exits(m, all_nodes(m)[i])]
           \o [i \in 1..Len(all_nodes(m)) |-> check_exception_handling(m, all_nodes(m)[i])]
           \o [i \in 1..Len(all_nodes(m)) |-> check_reachable_terminal(m, all_nodes(m)[i])])

\* ------------------------------------------------ the machines explored
PathLists(T) == {<<>>} \cup {<<t>> : t \in T}

\* The decorator stacks with decorations drawn from D and handlers from T.
Policies(D, T) ==
    {[decor |-> d, x |-> ""] : d \in D \cap {"none", "no_exceptions"}}
    \cup {[decor |-> d, x |-> t] : d \in D \cap {"handle_exceptions", "both"}, t \in T}

Docs(name, Terminal, T, P) ==
    { [name |-> name, is_entry |-> name = "entry", is_terminal |-> t, overview |-> "Yo.",
       happy_paths |-> h, unhappy_paths |-> u, invokes_machine |-> "", decor |-> p.decor,
       x |-> p.x] :
         t \in Terminal, h \in PathLists(T), u \in PathLists(T), p \in P }

\* The machine types explored: an entry node, a second node and
\* report_results, each with at most one happy and one unhappy path.
Machines ==
    { [n \in NodeNames |->
          CASE n = "entry" -> e [] n = "work" -> w [] n = "report_results" -> r] :
        e \in Docs("entry", {FALSE}, {"work", "report_results"},
                   Policies({"none", "no_exceptions", "handle_exceptions", "both"},
                            {"work", "report_results"})),
        w \in Docs("work", BOOLEAN, NodeNames,
                   Policies({"no_exceptions", "handle_exceptions"}, {"entry", "report_results"})),
        r \in Docs("report_results", {TRUE}, {},
                   Policies({"no_exceptions", "handle_exceptions"}, {"report_results"})) }

\* debug: the interpreter's __debug__; nodes: the decorated node methods of
\* the class; cls, cls_error, entry_node: the outcome of the class decorator
\* and cls.__entry_node__; pc, error: where the instance is (not constructed,
\* idle, inside execute, returned, raised) and the exception raised;
\* current_node, results: self._current_node and self.results.
\* History of the current execute() call: calls counts the calls, base is
\* the length of results when the call began, invoked lists the nodes whose
\* bodies were run, last is the body and return value of the latest one.
\* fn: a function of the class body and what the node decorator made of it.
\* raising: the dependency operations of the archive machine that raise.
\* end_point: an EndPoint wrapper, what its machine handed back and the exit status.
\* repo_logger: the logger attribute of each repository adapter class.
\* workers: per worker, the attribute it asked its dependency binder for and got.
\* logged: which logger received a line of which worker's adapter call.
\* The docstring of the class the machine decorator is applied to.
VARIABLES debug, nodes, cls, cls_error, entry_node, pc, error, current_node,
          results, calls, base, invoked, last, fn, raising, end_point, repo_logger,
          workers, logged, cls_doc

vars == <<debug, nodes, cls, cls_error, entry_node, pc, error, current_node,
          results, calls, base, invoked, last, fn, raising, end_point, repo_logger,
          workers, logged, cls_doc>>

\* ------------------------------------------ AbstractMachine helper API
\* node_name without the machine's type name.
node_name_unqualified(cur) == cur.name

\* AbstractMachine.node_name
node_name(cur) == MachineTypeName \o "." \o cur.name

\* The guard shared by success, failure and exception.
not_a_node(exit_to) == debug /\ ~ismethod(exit_to) /\ ~has_is_node(exit_to)

success(cur, exit_to) ==
    IF not_a_node(exit_to)
    THEN Raise("IllegalTransitionError", "success transition " \o exit_to.name \o " is not a node")
    ELSE IF ~callable(exit_to) THEN Raise("ValidationError", "exit_to")
    ELSE Return(Transition(Success(node_name(cur)), exit_to))

\* failure with the bare message in the Failure.
failure_bare_message(cur, exit_to, message) ==
    IF not_a_node(exit_to)
    THEN Raise("IllegalTransitionError", "failure transition " \o exit_to.name \o " is not a node")
    ELSE IF ~callable(exit_to) THEN Raise("ValidationError", "exit_to")
    ELSE Return(Transition(Failure(node_name(cur), message), exit_to))

failure(cur, exit_to, message) ==
    IF not_a_node(exit_to)
    THEN Raise("IllegalTransitionError", "failure transition " \o exit_to.name \o " is not a node")
    ELSE IF ~callable(exit_to) THEN Raise("ValidationError", "exit_to")
    ELSE Return(Transition(Failure(node_name(cur), failure_prefix \o " " \o message), exit_to))

exception(cur, exit_to, exc) ==
    IF not_a_node(exit_to)
    THEN Raise("IllegalTransitionError", exit_to.name \o " is not a node")
    ELSE IF ~callable(exit_to) THEN Raise("ValidationError", "exit_to")
    ELSE Return(Transition(Failure(node_name(cur),
                    failure_prefix \o " unrecognized exception: " \o exc.msg), exit_to))

exit(cur) == Exit(Success(node_name(cur)))

\* --------------------------------------------------------- node bodies
\* What a node body can hand to exit_to.
Refs ==
    {NodeRef(n) : n \in NodeNames} \cup {MethodRef(n) : n \in MethodNames}
    \cup {StrRef("report_results")}

\* What a node body does: return one of the helpers' transitions, fall off
\* its end, or raise.
Bodies ==
    {[op |-> o, to |-> r] : o \in {"success", "failure"}, r \in Refs}
    \cup {[op |-> o, to |-> NodeRef("")] : o \in {"exit", "none", "raise"}}

\* The undecorated body func(self).
func(cur, b) ==
    CASE b.op = "success" -> success(cur, b.to)
      [] b.op = "failure" -> failure(cur, b.to, "uh oh")
      [] b.op = "exit" -> Return(exit(cur))
      [] b.op = "none" -> Return(None)
      [] b.op = "raise" -> Raise("Exception", "uh oh")

\* getattr(self, name)
getattr_self(name) ==
    IF name \in DOMAIN nodes THEN Return(NodeRef(name))
    ELSE IF name \in MethodNames THEN Return(MethodRef(name))
    ELSE Raise("AttributeError", name)

\* try_ without its except clause.
try_reraises(cur, b) == func(cur, b)

\* decorator/handle_exceptions.py: the wrapper try_.
try_(cur, b) ==
    IF func(cur, b).raised
    THEN IF getattr_self(nodes[cur.name].on_exception).raised
         THEN getattr_self(nodes[cur.name].on_exception)
         ELSE exception(cur, getattr_self(nodes[cur.name].on_exception).value, func(cur, b))
    ELSE func(cur, b)

\* self._current_node()
invoke(cur, b) == IF nodes[cur.name].wrapped THEN try_(cur, b) ELSE func(cur, b)

\* ------------------------------------------- AbstractMachine.execute
\* execute() without the isinstance(transition, Transition) check.
not_a_transition_off(t) == FALSE

not_a_transition(t) == debug /\ t.cls \notin {"Transition", "Exit"}

exit_not_terminal(prev) == nodes[prev.name].exits # <<>>

undeclared_exit(prev, cur) == debug /\ ~InSeq(cur.name, nodes[prev.name].exits)

\* execute() without the check of a Failure against unhappy_paths.
failure_on_happy_path_off(prev, cur, t) == FALSE

\* The check of a Failure that also refuses every declared happy path.
failure_on_happy_path_any_happy(prev, cur, t) ==
    /\ debug
    /\ t.result.type = "Failure"
    /\ \/ InSeq(cur.name, nodes[prev.name].happy_paths)
       \/ ~InSeq(cur.name, nodes[prev.name].unhappy_paths)

failure_on_happy_path(prev, cur, t) ==
    debug /\ t.result.type = "Failure" /\ ~InSeq(cur.name, nodes[prev.name].unhappy_paths)

\* execute() without the check of a Success against happy_paths.
success_on_unhappy_path_off(prev, cur, t) == FALSE

success_on_unhappy_path(prev, cur, t) ==
    debug /\ t.result.type = "Success" /\ ~InSeq(cur.name, nodes[prev.name].happy_paths)

Raises(type, cur) == [kind |-> "raise", type |-> type, current |-> cur]

\* execute() following every Transition without the three edge checks.
follow_unchecked(previous_node, t) ==
    IF debug /\ t.exit_to.kind # "node" THEN Raises("AttributeError", t.exit_to)
    ELSE [kind |-> "next", result |-> t.result, current |-> t.exit_to]

\* The checks on a Transition that is not an Exit.
follow(previous_node, t) ==
    IF debug /\ t.exit_to.kind # "node" THEN Raises("AttributeError", t.exit_to)
    ELSE IF undeclared_exit(previous_node, t.exit_to)
        THEN Raises("IllegalTransitionError", t.exit_to)
    ELSE IF failure_on_happy_path(previous_node, t.exit_to, t)
        THEN Raises("IllegalTransitionError", t.exit_to)
    ELSE IF success_on_unhappy_path(previous_node, t.exit_to, t)
        THEN Raises("IllegalTransitionError", t.exit_to)
    ELSE [kind |-> "next", result |-> t.result, current |-> t.exit_to]

\* One pass through the body of the while loop, with the node body doing b.
iteration(cur, b) ==
    IF cur.kind # "node" THEN Raises("AttributeError", cur)
    ELSE IF invoke(cur, b).raised THEN Raises(invoke(cur, b).type, cur)
    ELSE IF not_a_transition(invoke(cur, b).value) THEN Raises("IllegalTransitionError", cur)
    ELSE IF invoke(cur, b).value.cls = "Exit"
        THEN IF exit_not_terminal(cur) THEN Raises("NotTerminalNodeError", cur)
             ELSE [kind |-> "break", result |-> invoke(cur, b).value.result, current |-> cur]
    ELSE IF invoke(cur, b).value.cls # "Transition" THEN Raises("AttributeError", cur)
    ELSE follow(cur, invoke(cur, b).value)

NoStep == [node |-> "", body |-> [op |-> "", to |-> NodeRef("")], ret |-> Return(None)]

\* No function of the class body is being decorated.
\* A docstring: whether there is one, whether its YAML is a mapping (prose
\* loads as a string), and the keys node and machine read from the mapping.
NoDocString ==
    [present |-> FALSE, mapping |-> FALSE, overview |-> "", is_entry |-> FALSE,
     is_terminal |-> FALSE]

\* A docstring of plain prose: yaml.load returns a str.
ProseDocString ==
    [present |-> TRUE, mapping |-> FALSE, overview |-> "", is_entry |-> FALSE,
     is_terminal |-> FALSE]

\* A docstring with an overview.
Documented ==
    [present |-> TRUE, mapping |-> TRUE, overview |-> "Yo.", is_entry |-> FALSE,
     is_terminal |-> FALSE]

NoFunction == [name |-> "", doc |-> NoDocString, applied |-> FALSE, is_node |-> FALSE, error |-> ""]

\* No EndPoint has been created.
NoEndPoint == [pc |-> "none", outcome |-> Return(<<>>), exit_code |-> -1, written |-> 0]

\* Subclasses of AbstractRepository, the workers that run a machine each and
\* the logger each worker's machine passes to its dependency binder.
RepositoryClasses == {"FileManager", "Gpg"}

Workers == {"w1", "w2"}

WorkerLogger(w) == IF w = "w1" THEN "L1" ELSE "L2"

\* AbstractRepository declares logger without a value.
UnsetLoggers == [c \in RepositoryClasses |-> "unset"]

NoAttribute == [kind |-> "none", owner |-> ""]

IdleWorkers == [w \in Workers |-> [pc |-> "idle", asked |-> NoAttribute, held |-> NoAttribute]]

Init ==
    /\ debug \in BOOLEAN
    /\ \E d \in Machines : nodes = [n \in NodeNames |-> Decorate(d[n])]
    /\ cls = "declared"
    /\ cls_error = ""
    /\ entry_node = ""
    /\ pc = "noinst"
    /\ error = ""
    /\ current_node = NodeRef("")
    /\ results = <<>>
    /\ calls = 0
    /\ base = 0
    /\ invoked = <<>>
    /\ last = NoStep
    /\ cls_doc = Documented
    /\ logged = {}
    /\ workers = IdleWorkers
    /\ repo_logger = UnsetLoggers
    /\ end_point = NoEndPoint
    /\ raising = {}
    /\ fn = NoFunction

\* decorator/machine.py: the class decorator, run once when the type is
\* defined (the class and its nodes carry docstrings with an overview).  It
\* calls validate() only when __debug__ is set, and cls.__entry_node__ is
\* assigned nowhere but in validate().
machine ==
    /\ cls = "declared"
    /\ IF machine_raises(cls_doc, debug) # "ok"
       THEN /\ cls' = "rejected"
            /\ cls_error' = machine_raises(cls_doc, debug)
            /\ entry_node' = ""
       ELSE IF debug
       THEN IF validate(nodes) = "ok"
            THEN /\ cls' = "defined"
                 /\ entry_node' = entry_nodes(nodes)[1]
                 /\ cls_error' = ""
            ELSE /\ cls' = "rejected"
                 /\ cls_error' = validate(nodes)
                 /\ entry_node' = IF Len(entry_nodes(nodes)) = 1
                                  THEN entry_nodes(nodes)[1] ELSE ""
       ELSE /\ cls' = "defined"
            /\ entry_node' = ""
            /\ cls_error' = ""
    /\ UNCHANGED <<cls_doc, logged, workers, repo_logger, end_point, raising, fn, debug, nodes, pc, error, current_node, results, calls, base,
                   invoked, last>>

\* AbstractMachine.__init__
Construct ==
    /\ cls = "defined"
    /\ pc = "noinst"
    /\ pc' = "idle"
    /\ results' = <<>>
    /\ UNCHANGED <<cls_doc, logged, workers, repo_logger, end_point, raising, fn, debug, nodes, cls, cls_error, entry_node, error, current_node,
                   calls, base, invoked, last>>

\* execute() starting each call with an empty results list.
ExecuteStartClears ==
    /\ pc \in {"idle", "returned", "raised"}
    /\ calls < MaxCalls
    /\ Len(results) < MaxResults
    /\ calls' = calls + 1
    /\ base' = 0
    /\ invoked' = <<>>
    /\ last' = NoStep
    /\ results' = <<>>
    /\ IF entry_node = ""
       THEN /\ pc' = "raised"
            /\ error' = "AttributeError"
            /\ current_node' = current_node
       ELSE /\ pc' = "running"
            /\ error' = ""
            /\ current_node' = NodeRef(entry_node)
    /\ UNCHANGED <<cls_doc, logged, workers, repo_logger, end_point, raising, fn, debug, nodes, cls, cls_error, entry_node>>

\* execute(), up to the while loop.
ExecuteStart ==
    /\ pc \in {"idle", "returned", "raised"}
    /\ calls < MaxCalls
    /\ Len(results) < MaxResults
    /\ calls' = calls + 1
    /\ base' = Len(results)
    /\ invoked' = <<>>
    /\ last' = NoStep
    /\ IF entry_node = ""
       THEN /\ pc' = "raised"
            /\ error' = "AttributeError"
            /\ current_node' = current_node
       ELSE /\ pc' = "running"
            /\ error' = ""
            /\ current_node' = NodeRef(entry_node)
    /\ UNCHANGED <<cls_doc, logged, workers, repo_logger, end_point, raising, fn, debug, nodes, cls, cls_error, entry_node, results>>

\* execute() appending the Result of a Transition before it checks it.
StepAppendsFirst ==
    /\ pc = "running"
    /\ Len(results) < MaxResults
    /\ \E b \in Bodies :
         /\ invoked' = IF current_node.kind = "node"
                       THEN Append(invoked, current_node.name) ELSE invoked
         /\ last' = [node |-> current_node.name, body |-> b,
                     ret |-> IF current_node.kind = "node"
                             THEN invoke(current_node, b) ELSE Return(None)]
         /\ current_node' = iteration(current_node, b).current
         /\ IF iteration(current_node, b).kind = "raise"
            THEN /\ pc' = "raised"
                 /\ error' = iteration(current_node, b).type
                 /\ results' = IF /\ current_node.kind = "node"
                                  /\ ~invoke(current_node, b).raised
                                  /\ invoke(current_node, b).value.cls \in {"Transition", "Exit"}
                               THEN Append(results, invoke(current_node, b).value.result)
                               ELSE results
            ELSE /\ pc' = IF iteration(current_node, b).kind = "break"
                          THEN "returned" ELSE "running"
                 /\ error' = ""
                 /\ results' = Append(results, iteration(current_node, b).result)
    /\ UNCHANGED <<cls_doc, logged, workers, repo_logger, end_point, raising, fn, debug, nodes, cls, cls_error, entry_node, calls, base>>

\* execute(), one iteration of the while loop.
Step ==
    /\ pc = "running"
    /\ Len(results) < MaxResults
    /\ \E b \in Bodies :
         /\ invoked' = IF current_node.kind = "node"
                       THEN Append(invoked, current_node.name) ELSE invoked
         /\ last' = [node |-> current_node.name, body |-> b,
                     ret |-> IF current_node.kind = "node"
                             THEN invoke(current_node, b) ELSE Return(None)]
         /\ current_node' = iteration(current_node, b).current
         /\ IF iteration(current_node, b).kind = "raise"
            THEN /\ pc' = "raised"
                 /\ error' = iteration(current_node, b).type
                 /\ results' = results
            ELSE /\ pc' = IF iteration(current_node, b).kind = "break"
                          THEN "returned" ELSE "running"
                 /\ error' = ""
                 /\ results' = Append(results, iteration(current_node, b).result)
    /\ UNCHANGED <<cls_doc, logged, workers, repo_logger, end_point, raising, fn, debug, nodes, cls, cls_error, entry_node, calls, base>>

Next == machine \/ Construct \/ ExecuteStart \/ Step

Spec == Init /\ [][Next]_vars

\* ------------------------------------- class definitions put to validate
\* Names a docstring can list as an exit: the node methods, an attribute of
\* the class that is not a node ("exit") and a name the class lacks ("bob").
Definition(name, Entry, Terminal, H, U, P) ==
    { [name |-> name, is_entry |-> e, is_terminal |-> t, overview |-> "Yo.",
       happy_paths |-> h, unhappy_paths |-> u, invokes_machine |-> "", decor |-> p.decor,
       x |-> p.x] :
         e \in Entry, t \in Terminal, h \in PathLists(H), u \in PathLists(U), p \in P }

\* Class bodies with any number of entry and terminal nodes, undecorated
\* nodes, self-referencing nodes and exits that name no node.
Definitions ==
    { [n \in NodeNames |->
          CASE n = "entry" -> e [] n = "work" -> w [] n = "report_results" -> r] :
        e \in Definition("entry", BOOLEAN, {FALSE}, {"work", "bob"}, {"report_results", "exit"},
                         Policies({"none", "no_exceptions", "handle_exceptions", "both"},
                                  {"work", "report_results"})),
        w \in Definition("work", BOOLEAN, BOOLEAN, {"work", "report_results"}, {"report_results"},
                         Policies({"none", "no_exceptions", "handle_exceptions"},
                                  {"report_results"})),
        r \in Definition("report_results", {FALSE}, BOOLEAN, {}, {"report_results"},
                         Policies({"no_exceptions", "handle_exceptions"}, {"report_results"})) }

InitValidate ==
    /\ debug \in BOOLEAN
    /\ \E d \in Definitions : nodes = [n \in NodeNames |-> Decorate(d[n])]
    /\ cls = "declared"
    /\ cls_error = ""
    /\ entry_node = ""
    /\ pc = "noinst"
    /\ error = ""
    /\ current_node = NodeRef("")
    /\ results = <<>>
    /\ calls = 0
    /\ base = 0
    /\ invoked = <<>>
    /\ last = NoStep
    /\ cls_doc = Documented
    /\ logged = {}
    /\ workers = IdleWorkers
    /\ repo_logger = UnsetLoggers
    /\ end_point = NoEndPoint
    /\ raising = {}
    /\ fn = NoFunction

NextValidate == machine \/ Construct

SpecValidate == InitValidate /\ [][NextValidate]_vars

\* ------------------------------------- functions put to the node decorator
\* The members of AbstractMachine a subclass can shadow.
base_names ==
    {"validate", "exception", "exit", "failure", "execute", "success", "failure_prefix",
     "logger", "node_name", "state", "report_results"}

\* Names a method of a machine class can have: the members of the base, the
\* names node reserves and names of ordinary nodes.
FunctionNames == base_names \cup reserved_method_names \cup {"entry", "work"}

DocStrings ==
    {NoDocString, ProseDocString}
    \cup [present : {TRUE}, mapping : {TRUE}, overview : {"", "Yo."}, is_entry : BOOLEAN,
          is_terminal : BOOLEAN]

InitNode ==
    /\ fn \in [name : FunctionNames, doc : DocStrings, applied : {FALSE},
               is_node : {FALSE}, error : {""}]
    /\ debug \in BOOLEAN
    /\ nodes = [n \in NodeNames |-> no_exceptions(node(
                  [name |-> n, is_entry |-> n = "entry", is_terminal |-> n = "report_results",
                   overview |-> "Yo.", happy_paths |-> <<>>, unhappy_paths |-> <<>>,
                   invokes_machine |-> ""]))]
    /\ cls = "body"
    /\ cls_error = ""
    /\ entry_node = ""
    /\ pc = "noinst"
    /\ error = ""
    /\ current_node = NodeRef("")
    /\ results = <<>>
    /\ calls = 0
    /\ base = 0
    /\ invoked = <<>>
    /\ last = NoStep
    /\ cls_doc = Documented
    /\ logged = {}
    /\ workers = IdleWorkers
    /\ repo_logger = UnsetLoggers
    /\ end_point = NoEndPoint
    /\ raising = {}

\* @node applied to a function of the class body.
ApplyNode ==
    /\ cls = "body"
    /\ ~fn.applied
    /\ fn' = [fn EXCEPT !.applied = TRUE,
                        !.is_node = node_raises(fn) = "ok",
                        !.error = IF node_raises(fn) = "ok" THEN "" ELSE node_raises(fn)]
    /\ UNCHANGED <<cls_doc, logged, workers, repo_logger, end_point, raising, debug, nodes, cls, cls_error, entry_node, pc, error, current_node,
                   results, calls, base, invoked, last>>

NextNode == ApplyNode

SpecNode == InitNode /\ [][NextNode]_vars

\* ------------------------------------------------ a class statement
\* The docstrings a machine class can carry.
ClassDocStrings ==
    {NoDocString, ProseDocString, Documented, [Documented EXCEPT !.overview = ""]}

\* Class bodies for the class statement: valid graphs and graphs validate()
\* rejects (no entry node, no terminal node, an undecorated entry).
ClassBodies ==
    { [n \in NodeNames |->
          CASE n = "entry" -> e [] n = "work" -> w [] n = "report_results" -> r] :
        e \in Definition("entry", BOOLEAN, {FALSE}, {"work"}, {},
                         Policies({"none", "no_exceptions"}, {})),
        w \in Definition("work", {FALSE}, {FALSE}, {"report_results"}, {},
                         Policies({"no_exceptions"}, {})),
        r \in Definition("report_results", {FALSE}, BOOLEAN, {}, {},
                         Policies({"no_exceptions"}, {})) }

\* A class statement: the body is evaluated, applying node to a function
\* fn of the body, and machine is then applied to the class.
InitDefine ==
    /\ fn \in [name : {"entry", "exit"}, doc : DocStrings, applied : {FALSE},
               is_node : {FALSE}, error : {""}]
    /\ debug \in BOOLEAN
    /\ cls_doc \in ClassDocStrings
    /\ \E d \in ClassBodies : nodes = [n \in NodeNames |-> Decorate(d[n])]
    /\ cls = "body"
    /\ cls_error = ""
    /\ entry_node = ""
    /\ pc = "noinst"
    /\ error = ""
    /\ current_node = NodeRef("")
    /\ results = <<>>
    /\ calls = 0
    /\ base = 0
    /\ invoked = <<>>
    /\ last = NoStep
    /\ logged = {}
    /\ workers = IdleWorkers
    /\ repo_logger = UnsetLoggers
    /\ end_point = NoEndPoint
    /\ raising = {}

\* The class body ran to its end (no decorator in it raised): the class
\* object exists and the class decorator is applied next.
EndClassBody ==
    /\ cls = "body"
    /\ fn.applied
    /\ fn.error = ""
    /\ cls' = "declared"
    /\ UNCHANGED <<cls_doc, logged, workers, repo_logger, end_point, raising, fn, debug, nodes,
                   cls_error, entry_node, pc, error, current_node, results, calls, base,
                   invoked, last>>

NextDefine == ApplyNode \/ EndClassBody \/ machine

SpecDefine == InitDefine /\ [][NextDefine]_vars

\* ------------------------------------------ decorating the nodes of a body
\* The docstrings of a node called name with paths drawn from T.
Functions(name, T) ==
    { [name |-> name, is_entry |-> name = "entry", is_terminal |-> name = "report_results",
       overview |-> o, happy_paths |-> h, unhappy_paths |-> u, invokes_machine |-> i] :
         o \in {"Yo.", "Does the work."}, h \in PathLists(T), u \in PathLists(T),
         i \in {"", "MachineArchiveEncrypted"} }

\* Class bodies whose methods have been through @node and nothing else.
FunctionBodies ==
    { [n \in NodeNames |->
          CASE n = "entry" -> e [] n = "work" -> w [] n = "report_results" -> r] :
        e \in {f \in Functions("entry", {"work"}) :
                  f.invokes_machine = "" /\ f.overview = "Yo."},
        w \in Functions("work", {"report_results"}),
        r \in {f \in Functions("report_results", {}) :
                  f.invokes_machine = "" /\ f.overview = "Yo."} }

InitDecorate ==
    /\ debug \in BOOLEAN
    /\ \E d \in FunctionBodies : nodes = [n \in NodeNames |-> node(d[n])]
    /\ cls = "body"
    /\ cls_error = ""
    /\ entry_node = ""
    /\ pc = "noinst"
    /\ error = ""
    /\ current_node = NodeRef("")
    /\ results = <<>>
    /\ calls = 0
    /\ base = 0
    /\ invoked = <<>>
    /\ last = NoStep
    /\ cls_doc = Documented
    /\ logged = {}
    /\ workers = IdleWorkers
    /\ repo_logger = UnsetLoggers
    /\ end_point = NoEndPoint
    /\ raising = {}
    /\ fn = NoFunction

\* @no_exceptions written above node n (over @node or over the barrier).
ApplyNoExceptions(n) ==
    /\ cls = "body"
    /\ nodes[n].has_exception_handling # "false"
    /\ nodes' = [nodes EXCEPT ![n] = no_exceptions(nodes[n])]
    /\ UNCHANGED <<cls_doc, logged, workers, repo_logger, end_point, raising, fn, debug, cls,
                   cls_error, entry_node, pc, error, current_node, results, calls, base,
                   invoked, last>>

\* @handle_exceptions(on_exception=x) written above node n.
ApplyHandleExceptions(n, x) ==
    /\ cls = "body"
    /\ ~nodes[n].wrapped
    /\ nodes' = [nodes EXCEPT ![n] = handle_exceptions(x, nodes[n])]
    /\ UNCHANGED <<cls_doc, logged, workers, repo_logger, end_point, raising, fn, debug, cls,
                   cls_error, entry_node, pc, error, current_node, results, calls, base,
                   invoked, last>>

NextDecorate ==
    \/ \E n \in NodeNames : ApplyNoExceptions(n)
    \/ \E n \in NodeNames, x \in NodeNames : ApplyHandleExceptions(n, x)

SpecDecorate == InitDecorate /\ [][NextDecorate]_vars

\* ------------------------------------------------ MachineArchiveEncrypted
\* The docstring and decorators of a node of the archive machine.
ArchiveDoc(name, happy, unhappy, x) ==
    [name |-> name, is_entry |-> name = "ensure_staging_directory",
     is_terminal |-> name = "report_results", overview |-> "Yo.", happy_paths |-> happy,
     unhappy_paths |-> unhappy, invokes_machine |-> "", decor |-> "handle_exceptions",
     x |-> x]

\* The class body of MachineArchiveEncrypted.
ArchiveMachine ==
    [n \in ArchiveNodeNames |-> Decorate(
        CASE n = "ensure_staging_directory" ->
               ArchiveDoc(n, <<"copy_to_staging">>, <<"report_results">>, "report_results")
          [] n = "copy_to_staging" ->
               ArchiveDoc(n, <<"encrypt_file">>, <<"remove_copied_file">>, "remove_copied_file")
          [] n = "encrypt_file" ->
               ArchiveDoc(n, <<"ensure_archive_directory">>, <<"remove_copied_file">>,
                          "remove_copied_file")
          [] n = "ensure_archive_directory" ->
               ArchiveDoc(n, <<"move_to_archive">>, <<"remove_encrypted_file">>,
                          "remove_encrypted_file")
          [] n = "move_to_archive" ->
               ArchiveDoc(n, <<"report_results">>, <<"remove_encrypted_file">>,
                          "remove_encrypted_file")
          [] n = "remove_copied_file" ->
               ArchiveDoc(n, <<"report_results">>, <<"report_results">>, "report_results")
          [] n = "remove_encrypted_file" ->
               ArchiveDoc(n, <<"remove_copied_file">>, <<"remove_copied_file">>,
                          "remove_copied_file")
          [] n = "report_results" ->
               ArchiveDoc(n, <<>>, <<>>, "report_results"))]

\* The operations of DependencyArchiveEncrypted, each of which a test
\* replaces by a mock that returns or by one that raises.
DependencyOperations ==
    {"ensure_staging_directory", "copy_to_staging", "encrypt_file", "remove_copied_file",
     "remove_encrypted_file", "ensure_archive_directory", "move_to_archive",
     "remove_from_archive"}

InitArchive ==
    /\ debug \in BOOLEAN
    /\ raising \in SUBSET DependencyOperations
    /\ nodes = ArchiveMachine
    /\ cls = "declared"
    /\ cls_error = ""
    /\ entry_node = ""
    /\ pc = "noinst"
    /\ error = ""
    /\ current_node = NodeRef("")
    /\ results = <<>>
    /\ calls = 0
    /\ base = 0
    /\ invoked = <<>>
    /\ last = NoStep
    /\ cls_doc = Documented
    /\ logged = {}
    /\ workers = IdleWorkers
    /\ repo_logger = UnsetLoggers
    /\ end_point = NoEndPoint
    /\ fn = NoFunction

\* The class decorator, the constructor and execute() up to its loop: the
\* class is rejected by validate when __debug__ is set and has no
\* __entry_node__ when it is not, so no node of this machine is ever run.
NextArchive == machine \/ Construct \/ ExecuteStart

SpecArchive == InitArchive /\ [][NextArchive]_vars

\* ------------------------------------------------- end_point/end_point.py
\* The number of exit statuses a process can report to its parent: exit()
\* hands the status to the operating system, which keeps its low eight bits.
ExitStatusModulus == 256

\* repository/process/process.py: Process.exit, as the status the parent of
\* the process reads.
Process_exit(result) == result % ExitStatusModulus

\* Result lists a machine can return: n Results that are all Failures, all
\* Successes, or Failures at the odd positions.
ReturnedLists ==
    { [i \in 1..n |->
          IF p = "failures" \/ (p = "mixed" /\ i % 2 = 1)
          THEN Failure("Machine.work", "Machine uh oh")
          ELSE Success("Machine.work")] :
        n \in 0..MaxReturned, p \in {"failures", "successes", "mixed"} }

\* What self.machine.execute() does: return a list or raise.
MachineOutcomes ==
    {Return(l) : l \in ReturnedLists} \cup {Raise("Exception", "uh oh")}

InitEndPoint ==
    /\ end_point \in [pc : {"created"}, outcome : MachineOutcomes, exit_code : {-1},
                      written : {0}]
    /\ debug \in BOOLEAN
    /\ raising = {}
    /\ nodes = [n \in NodeNames |-> no_exceptions(node(
                  [name |-> n, is_entry |-> n = "entry", is_terminal |-> n = "report_results",
                   overview |-> "Yo.", happy_paths |-> <<>>, unhappy_paths |-> <<>>,
                   invokes_machine |-> ""]))]
    /\ cls = "defined"
    /\ cls_error = ""
    /\ entry_node = ""
    /\ pc = "idle"
    /\ error = ""
    /\ current_node = NodeRef("")
    /\ results = <<>>
    /\ calls = 0
    /\ base = 0
    /\ invoked = <<>>
    /\ last = NoStep
    /\ cls_doc = Documented
    /\ logged = {}
    /\ workers = IdleWorkers
    /\ repo_logger = UnsetLoggers
    /\ fn = NoFunction

\* The Failures EndPoint.execute filters out of the returned list.
failures(l) == SelectSeq(l, LAMBDA r : r.type = "Failure")

\* EndPoint.execute
EndPointExecute ==
    /\ end_point.pc = "created"
    /\ end_point' =
         IF end_point.outcome.raised
         THEN [end_point EXCEPT !.pc = "exited", !.written = 1, !.exit_code = Process_exit(1)]
         ELSE [end_point EXCEPT !.pc = "exited",
                                !.written = Len(failures(end_point.outcome.value)),
                                !.exit_code = Process_exit(Len(failures(end_point.outcome.value)))]
    /\ UNCHANGED <<cls_doc, logged, workers, repo_logger, raising, fn, debug, nodes, cls, cls_error, entry_node, pc, error,
                   current_node, results, calls, base, invoked, last>>

NextEndPoint == EndPointExecute

SpecEndPoint == InitEndPoint /\ [][NextEndPoint]_vars

\* ------------------------------------------------- base_dependency.py
\* The attributes of a dependency binder: classmethods of repository
\* adapters and of another class, a method bound to an instance, and a value.
Attributes ==
    {[kind |-> "classmethod", owner |-> c] : c \in RepositoryClasses \cup {"MockBasic"}}
    \cup {[kind |-> "method", owner |-> "instance"], [kind |-> "value", owner |-> ""]}

\* hasattr(attribute, "__self__")
has_self(a) == a.kind \in {"classmethod", "method"}

\* issubclass(attribute.__self__, AbstractRepository): raises TypeError when
\* __self__ is not a class.
issubclass_raises(a) == a.kind = "method"

issubclass_AbstractRepository(a) == a.kind = "classmethod" /\ a.owner \in RepositoryClasses

InitBinder ==
    /\ repo_logger = UnsetLoggers
    /\ workers = IdleWorkers
    /\ logged = {}
    /\ end_point = NoEndPoint
    /\ debug \in BOOLEAN
    /\ raising = {}
    /\ nodes = [n \in NodeNames |-> no_exceptions(node(
                  [name |-> n, is_entry |-> n = "entry", is_terminal |-> n = "report_results",
                   overview |-> "Yo.", happy_paths |-> <<>>, unhappy_paths |-> <<>>,
                   invokes_machine |-> ""]))]
    /\ cls = "defined"
    /\ cls_error = ""
    /\ entry_node = ""
    /\ pc = "idle"
    /\ error = ""
    /\ current_node = NodeRef("")
    /\ results = <<>>
    /\ calls = 0
    /\ base = 0
    /\ invoked = <<>>
    /\ last = NoStep
    /\ cls_doc = Documented
    /\ fn = NoFunction

\* BaseDependency.__getattribute__, called by worker w on its binder.
getattribute(w, a) ==
    /\ workers[w].pc = "idle"
    /\ IF has_self(a) /\ issubclass_raises(a)
       THEN /\ workers' = [workers EXCEPT ![w] = [pc |-> "raised", asked |-> a,
                                                  held |-> NoAttribute]]
            /\ repo_logger' = repo_logger
       ELSE /\ workers' = [workers EXCEPT ![w] = [pc |-> "fetched", asked |-> a, held |-> a]]
            /\ repo_logger' = IF has_self(a) /\ issubclass_AbstractRepository(a)
                              THEN [repo_logger EXCEPT ![a.owner] = WorkerLogger(w)]
                              ELSE repo_logger
    /\ UNCHANGED <<cls_doc, logged, end_point, raising, fn, debug, nodes, cls, cls_error, entry_node,
                   pc, error, current_node, results, calls, base, invoked, last>>

\* Worker w calls the operation it fetched: a repository classmethod writes
\* its lines to cls.logger.
call(w) ==
    /\ workers[w].pc = "fetched"
    /\ workers' = [workers EXCEPT ![w] = [pc |-> "idle", asked |-> NoAttribute,
                                          held |-> NoAttribute]]
    /\ logged' = IF issubclass_AbstractRepository(workers[w].held)
                 THEN logged \cup {[worker |-> w, logger |-> repo_logger[workers[w].held.owner]]}
                 ELSE logged
    /\ UNCHANGED <<cls_doc, repo_logger, end_point, raising, fn, debug, nodes, cls, cls_error,
                   entry_node, pc, error, current_node, results, calls, base, invoked, last>>

NextBinder ==
    \/ \E w \in Workers, a \in Attributes : getattribute(w, a)
    \/ \E w \in Workers : call(w)

SpecBinder == InitBinder /\ [][NextBinder]_vars

\* validate() ran on the class and returned.
Validated == debug /\ cls = "defined"

\* validate() ran on the class and raised e.
RejectedWith(e) == debug /\ cls = "rejected" /\ cls_error = e

\* The machine decorator has been applied in a build that validates.
ValidateRan == debug /\ cls # "declared"

\* ------------------------------------------------------------- properties
\* The node whose body ran last in the current call, and what its
\* undecorated body did.
LastRan == last.node # ""

LastNode == NodeRef(last.node)

LastMeta == nodes[last.node]

BodyOutcome == func(LastNode, last.body)

\* The node returned a Transition that is not an Exit.
ReturnedTransition == LastRan /\ ~last.ret.raised /\ last.ret.value.cls = "Transition"

QualifiedName(n) == MachineTypeName \o "." \o n

\* C1: every node invoked after the entry node is a declared exit of the node
\* invoked immediately before it, along a happy_paths edge when that node's
\* Result is Success and an unhappy_paths edge when it is Failure; the machine
\* is one the validator accepted.
C1_DeclaredEdgeFollowed ==
    [][ (Len(invoked) >= 1 /\ Len(invoked') = Len(invoked) + 1) =>
          /\ validate(nodes) = "ok"
          /\ InSeq(invoked'[Len(invoked')], nodes[invoked[Len(invoked)]].exits)
          /\ results[Len(results)].node = QualifiedName(invoked[Len(invoked)])
          /\ results[Len(results)].type = "Success" =>
                InSeq(invoked'[Len(invoked')], nodes[invoked[Len(invoked)]].happy_paths)
          /\ results[Len(results)].type = "Failure" =>
                InSeq(invoked'[Len(invoked')], nodes[invoked[Len(invoked)]].unhappy_paths)
      ]_vars

\* A node with two different successors returned a Failure and the unhappy
\* successor was invoked.
C1_Witness ==
    /\ Len(invoked) = 2
    /\ nodes[invoked[1]].happy_paths # <<>>
    /\ nodes[invoked[1]].unhappy_paths # <<>>
    /\ nodes[invoked[1]].happy_paths # nodes[invoked[1]].unhappy_paths
    /\ results[base + 1].type = "Failure"

\* C2: a node whose is_terminal is false and that returns Exit makes
\* execute() raise NotTerminalNodeError, so execute() returns only when the
\* node that returned Exit is terminal.
C2_ExitOnlyFromTerminal ==
    (LastRan /\ ~last.ret.raised /\ last.ret.value.cls = "Exit" /\ ~LastMeta.is_terminal)
        => (pc = "raised" /\ error = "NotTerminalNodeError")

\* C3 as stated: when execute() returns, the returned list holds exactly one
\* Result per node invoked during that call, in order, each named
\* "<MachineTypeName>.<NodeName>".
C3_ReturnedListIsThisCall ==
    pc = "returned" =>
        /\ Len(results) = Len(invoked)
        /\ \A i \in 1..Len(invoked) : results[i].node = QualifiedName(invoked[i])

\* C3 amended: when execute() returns, the Results appended during that call
\* are exactly one per node invoked, in invocation order, the Result of the
\* Exit last, each named "<MachineTypeName>.<NodeName>"; the returned list is
\* the whole log of the instance, which is those Results alone when the call
\* is the first on the instance.
C3_AppendedOnePerNode ==
    pc = "returned" =>
        /\ Len(results) = base + Len(invoked)
        /\ \A i \in 1..Len(invoked) : results[base + i].node = QualifiedName(invoked[i])
        /\ last.ret.value.cls = "Exit"
        /\ results[Len(results)] = last.ret.value.result
        /\ calls = 1 => base = 0

\* A second call returned after two nodes, behind the Result of an earlier call.
C3_Witness == pc = "returned" /\ calls = 2 /\ base >= 1 /\ Len(invoked) = 2

C5_NoExceptionsPropagates ==
    (LastRan /\ LastMeta.has_exception_handling = "false" /\ BodyOutcome.raised) =>
        /\ pc = "raised"
        /\ error = BodyOutcome.type
        /\ Len(results) = base + Len(invoked) - 1

\* C6 as stated: a Failure transition to a declared happy path, or a Success
\* transition to a declared unhappy path, makes execute() raise
\* IllegalTransitionError.
C6_WrongKindOfEdgeRaises ==
    (/\ ReturnedTransition
     /\ \/ /\ last.ret.value.result.type = "Failure"
           /\ InSeq(last.ret.value.exit_to.name, LastMeta.happy_paths)
        \/ /\ last.ret.value.result.type = "Success"
           /\ InSeq(last.ret.value.exit_to.name, LastMeta.unhappy_paths))
        => (pc = "raised" /\ error = "IllegalTransitionError")

\* C6 amended: a Failure transition to a target that is a declared happy path
\* and not a declared unhappy path, or a Success transition to a target that
\* is a declared unhappy path and not a declared happy path, makes execute()
\* raise IllegalTransitionError and appends nothing.
C6_WrongKindOnlyRaises ==
    (/\ ReturnedTransition
     /\ \/ /\ last.ret.value.result.type = "Failure"
           /\ InSeq(last.ret.value.exit_to.name, LastMeta.happy_paths)
           /\ ~InSeq(last.ret.value.exit_to.name, LastMeta.unhappy_paths)
        \/ /\ last.ret.value.result.type = "Success"
           /\ InSeq(last.ret.value.exit_to.name, LastMeta.unhappy_paths)
           /\ ~InSeq(last.ret.value.exit_to.name, LastMeta.happy_paths))
        => (pc = "raised" /\ error = "IllegalTransitionError"
            /\ Len(results) = base + Len(invoked) - 1)

\* A Success was sent to a successor declared only as an unhappy path.
C6_Witness ==
    /\ ReturnedTransition
    /\ last.ret.value.result.type = "Success"
    /\ InSeq(last.ret.value.exit_to.name, LastMeta.unhappy_paths)
    /\ ~InSeq(last.ret.value.exit_to.name, LastMeta.happy_paths)
    /\ pc = "raised"

\* C7: a node that returns a value that is not a Transition makes execute()
\* raise IllegalTransitionError.
C7_NonTransitionRaises ==
    (LastRan /\ ~last.ret.raised /\ last.ret.value.cls \notin {"Transition", "Exit"})
        => (pc = "raised" /\ error = "IllegalTransitionError")

\* A node fell off the end of its body and execute() raised.
C7_Witness == LastRan /\ last.body.op = "none" /\ ~last.ret.raised /\ pc = "raised"

\* C8: a Transition that is not an Exit and whose target is not among the
\* declared exits of the node that returned it (a node that is not declared, or
\* something that is not a node of the machine) makes execute() raise
\* IllegalTransitionError.
C8_UndeclaredTargetRaises ==
    (ReturnedTransition /\ ~(/\ last.ret.value.exit_to.kind = "node"
                              /\ InSeq(last.ret.value.exit_to.name, LastMeta.exits)))
        => (pc = "raised" /\ error = "IllegalTransitionError")

\* C9: an IllegalTransitionError raised by a helper inside a node body aborts
\* execute() with that error whatever the exception policy of the node, and
\* is not turned into a Failure Result.
C9_ControlPlaneErrorAborts ==
    (LastRan /\ BodyOutcome.raised /\ BodyOutcome.type = "IllegalTransitionError")
        => (pc = "raised" /\ error = "IllegalTransitionError"
            /\ Len(results) = base + Len(invoked) - 1)

\* C10: results is append-only: every step of the instance, a raising one and
\* a later execute() call included, leaves the previous contents as a prefix.
C10_ResultsAppendOnly == [][IsPrefix(results, results')]_vars

\* A second execute() call appended behind the Results of the first, and a
\* call raised with Results already in the log.
C10_Witness == calls = 2 /\ base >= 1 /\ Len(results) > base /\ pc = "raised"

\* ------------------------------------------------ properties of validate
\* The nodes reached from the nodes of S by following declared exits.
RECURSIVE reachable(_, _)
reachable(m, S) ==
    IF {x \in NodeNames : \E n \in S : InSeq(x, m[n].exits)} \subseteq S THEN S
    ELSE reachable(m, S \cup {x \in NodeNames : \E n \in S : InSeq(x, m[n].exits)})

reachable_from_entry(m) == reachable(m, {n \in NodeNames : m[n].is_entry})

\* C11: in every machine that passes validation, every non-entry node is
\* reachable from the entry node by following declared exits transitively.
C11_NonEntryReachableFromEntry ==
    Validated => \A n \in NodeNames :
                    ~nodes[n].is_entry => n \in reachable_from_entry(nodes)

\* C12: validation rejects (with UnreachableNodeError) every machine in
\* which some non-entry node appears in no other node's exits.  The type of
\* the error is left open here, because a check that validate makes earlier
\* may raise first: such a machine is at least never accepted.
C12_NotInOthersExitsRejected ==
    (/\ ValidateRan
     /\ \E n \in NodeNames :
          /\ ~nodes[n].is_entry
          /\ \A k \in NodeNames \ {n} : ~InSeq(n, nodes[k].exits))
    => cls = "rejected"

\* C13: validation rejects with UndefinedNodeError every machine in which
\* some node's exits contains a name that is not a node defined on the
\* machine.  Stated for the classes that pass the checks validate makes
\* before it looks at the exits (one entry node, a terminal node).
C13_NonNodeExitUndefinedNodeError ==
    (/\ ValidateRan
     /\ Len(entry_nodes(nodes)) = 1
     /\ terminal_nodes(nodes) # <<>>
     /\ \E n \in NodeNames : \E i \in 1..Len(nodes[n].exits) :
          nodes[n].exits[i] \notin NodeNames)
    => RejectedWith("UndefinedNodeError")

\* C14: a machine passes validation only if exactly one of its nodes has
\* is_entry = true; a class with no entry node is rejected with
\* NoEntryNodeError and one with two or more with MultipleEntryNodeError.
C14_ExactlyOneEntryNode ==
    /\ Validated => Cardinality({n \in NodeNames : nodes[n].is_entry}) = 1
    /\ (ValidateRan /\ Cardinality({n \in NodeNames : nodes[n].is_entry}) = 0)
          => RejectedWith("NoEntryNodeError")
    /\ (ValidateRan /\ Cardinality({n \in NodeNames : nodes[n].is_entry}) >= 2)
          => RejectedWith("MultipleEntryNodeError")

C14_Witness ==
    /\ RejectedWith("MultipleEntryNodeError")
    /\ nodes["entry"].is_entry
    /\ nodes["work"].is_entry

\* The checks validate makes before its last loop find nothing.
CountsOk == Len(entry_nodes(nodes)) = 1 /\ terminal_nodes(nodes) # <<>>

ExitsOk == \A k \in NodeNames : check_exits(nodes, k) = "ok"

TerminalWithPaths(n) ==
    nodes[n].is_terminal /\ (nodes[n].happy_paths # <<>> \/ nodes[n].unhappy_paths # <<>>)

HandlerNotUnhappy(n) ==
    /\ nodes[n].has_exception_handling = "true"
    /\ ~InSeq(nodes[n].on_exception, nodes[n].unhappy_paths)

Undecorated(n) == nodes[n].has_exception_handling = "unset"

Unlisted(n) == ~nodes[n].is_entry /\ n \notin collected_exits(nodes)

\* C15: validation rejects with NotTerminalNodeError every machine in which
\* a node with is_terminal = true declares a non-empty happy_paths or
\* unhappy_paths.
C15_TerminalWithPathsNotTerminalNodeError ==
    (ValidateRan /\ \E n \in NodeNames : TerminalWithPaths(n))
    => RejectedWith("NotTerminalNodeError")

\* C15, amended: validation rejects every machine in which a terminal node
\* declares a happy or unhappy path, and the error is NotTerminalNodeError
\* when no check validate makes earlier fails (entry and terminal counts,
\* exits that name nodes, a policy on every node with on_exception among
\* its unhappy paths, every non-entry node listed as an exit).
C15_TerminalWithPathsRejected ==
    (ValidateRan /\ \E n \in NodeNames : TerminalWithPaths(n))
    => /\ cls = "rejected"
       /\ (/\ CountsOk
           /\ ExitsOk
           /\ \A k \in NodeNames : ~Undecorated(k) /\ ~HandlerNotUnhappy(k)
           /\ \A k \in NodeNames : ~Unlisted(k))
          => RejectedWith("NotTerminalNodeError")

C15_Witness ==
    /\ RejectedWith("NotTerminalNodeError")
    /\ TerminalWithPaths("report_results")

C17_UndecoratedNoExceptionHandlingError ==
    (ValidateRan /\ \E n \in NodeNames : Undecorated(n))
    => RejectedWith("NoExceptionHandlingError")

\* C17, amended: such a machine is always rejected, with
\* NoExceptionHandlingError when no check validate makes earlier fails
\* (entry and terminal counts, exits that name nodes, on_exception among the
\* unhappy paths of every exception-handling node).
C17_UndecoratedRejected ==
    (ValidateRan /\ \E n \in NodeNames : Undecorated(n))
    => /\ cls = "rejected"
       /\ (CountsOk /\ ExitsOk /\ \A k \in NodeNames : ~HandlerNotUnhappy(k))
          => RejectedWith("NoExceptionHandlingError")

C17_Witness ==
    /\ RejectedWith("NoExceptionHandlingError")
    /\ Undecorated("work")

\* ------------------------------------------ properties of the decorators
\* C18: declaring as a node a function whose name is a reserved name of the
\* machine base (validate, exception, exit, failure, execute, success,
\* failure_prefix, logger, node_name, state, report_results) raises
\* OverrideError.
C18_ReservedNameOverrideError ==
    (fn.applied /\ fn.name \in base_names) => fn.error = "OverrideError"

\* C19: the validator runs at every machine type definition whatever the
\* build or debug mode, so a machine type that violates a construction
\* invariant is never defined or instantiated.
C19_InvalidNeverDefined ==
    (cls = "defined" \/ pc # "noinst") => validate(nodes) = "ok"

\* ------------------------------------------- properties of the helper API
\* C20: success(exit_to) called while node n runs returns a Transition
\* carrying Success("<Machine>.<n>") and next = exit_to when exit_to is a
\* reference to a node, and raises IllegalTransitionError for every other
\* exit_to, bound methods of the machine that are not nodes included.
C20_SuccessReturnsOrRejects ==
    (LastRan /\ last.body.op = "success")
    => IF last.body.to.kind = "node"
       THEN BodyOutcome = Return(Transition(Success(QualifiedName(last.node)), last.body.to))
       ELSE BodyOutcome.raised /\ BodyOutcome.type = "IllegalTransitionError"

\* C21: failure(exit_to, message) called while node n runs returns a
\* Transition with next = exit_to whose result is Failure(node =
\* "<Machine>.<n>", message = "<failure_prefix> <message>"), exit_to being a
\* callable as the signature declares (a node or another bound method).
C21_FailureTransition ==
    (LastRan /\ last.body.op = "failure" /\ callable(last.body.to))
    => BodyOutcome = Return([cls |-> "Transition",
                             result |-> [type |-> "Failure",
                                         node |-> MachineTypeName \o "." \o last.node,
                                         message |-> "Machine uh oh"],
                             exit_to |-> last.body.to])

\* A node called failure with a reference to report_results.
C21_Witness ==
    /\ LastRan
    /\ last.body.op = "failure"
    /\ last.body.to = NodeRef("report_results")
    /\ ~BodyOutcome.raised

\* -------------------------------------- properties of the archive machine
\* An execute() call on the instance has ended.
Finished == calls >= 1 /\ pc # "running"

\* The kind and node of each Result in the log.
Outcomes == [i \in 1..Len(results) |-> <<results[i].type, results[i].node>>]

Succeeded(n) == <<"Success", "MachineArchiveEncrypted." \o n>>

Failed(n) == <<"Failure", "MachineArchiveEncrypted." \o n>>

Failures == {i \in 1..Len(results) : results[i].type = "Failure"}

\* C22: in MachineArchiveEncrypted, when every dependency operation
\* succeeds, execute() returns exactly six Results, all Success, produced by
\* ensure_staging_directory, copy_to_staging, encrypt_file,
\* ensure_archive_directory, move_to_archive and report_results in that
\* order (so the type is defined and the call does not raise).
C22_HappyPathSixSuccesses ==
    raising = {}
    => /\ cls # "rejected"
       /\ Finished
          => /\ pc = "returned"
             /\ Outcomes = <<Succeeded("ensure_staging_directory"), Succeeded("copy_to_staging"),
                             Succeeded("encrypt_file"), Succeeded("ensure_archive_directory"),
                             Succeeded("move_to_archive"), Succeeded("report_results")>>

\* C23: when only copy_to_staging's (respectively only encrypt_file's)
\* dependency raises, the run records a Failure at that node, then
\* remove_copied_file:Success, then report_results:Success as the last
\* Result; remove_encrypted_file is not invoked and the list holds exactly
\* one Failure.
C23_StagingFailureRollsBack ==
    /\ raising = {"copy_to_staging"}
       => /\ cls # "rejected"
          /\ Finished
             => /\ pc = "returned"
                /\ Outcomes = <<Succeeded("ensure_staging_directory"), Failed("copy_to_staging"),
                                Succeeded("remove_copied_file"), Succeeded("report_results")>>
                /\ ~InSeq("remove_encrypted_file", invoked)
    /\ raising = {"encrypt_file"}
       => /\ cls # "rejected"
          /\ Finished
             => /\ pc = "returned"
                /\ Outcomes = <<Succeeded("ensure_staging_directory"), Succeeded("copy_to_staging"),
                                Failed("encrypt_file"), Succeeded("remove_copied_file"),
                                Succeeded("report_results")>>
                /\ ~InSeq("remove_encrypted_file", invoked)

\* C24: when only ensure_archive_directory's (respectively only
\* move_to_archive's) dependency raises, the run rolls back in the order
\* remove_encrypted_file:Success, remove_copied_file:Success,
\* report_results:Success, and the returned list holds exactly one Failure,
\* at the node whose dependency raised.
C24_ArchiveFailureRollsBack ==
    \A n \in {"ensure_archive_directory", "move_to_archive"} :
       raising = {n}
       => /\ cls # "rejected"
          /\ Finished
             => /\ pc = "returned"
                /\ Len(results) >= 4
                /\ SubSeq(Outcomes, Len(results) - 3, Len(results))
                      = <<Failed(n), Succeeded("remove_encrypted_file"),
                          Succeeded("remove_copied_file"), Succeeded("report_results")>>
                /\ Cardinality(Failures) = 1

\* C25: for every subset of dependency operations that raise (cleanup
\* operations included), execute() terminates normally and the last Result
\* is report_results:Success; when both copy_to_staging and
\* remove_copied_file raise, the list holds at least two Failures.
C25_AlwaysEndsOnReportResults ==
    /\ cls # "rejected"
    /\ Finished
       => /\ pc = "returned"
          /\ results # <<>>
          /\ Outcomes[Len(results)] = Succeeded("report_results")
          /\ {"copy_to_staging", "remove_copied_file"} \subseteq raising
                => Cardinality(Failures) >= 2

\* --------------------------------------------- properties of the EndPoint
\* C26: EndPoint.execute exits the process with a code equal to the number
\* of Failure entries in the list returned by machine.execute(), and with
\* code 1 when machine.execute() raises an exception.
C26_ExitCodeCountsFailures ==
    end_point.pc = "exited"
    => IF end_point.outcome.raised
       THEN end_point.exit_code = 1
       ELSE end_point.exit_code =
              Cardinality({i \in 1..Len(end_point.outcome.value) :
                             end_point.outcome.value[i].type = "Failure"})

\* ------------------------------------ properties of the dependency binder
\* C27: when two machines with different loggers run concurrently and use
\* the same repository adapter class through their binders, every adapter
\* operation logs to the logger of the machine that fetched it, under every
\* interleaving of fetches and calls.
C27_LogsToOwnLogger ==
    \A l \in logged : l.logger = WorkerLogger(l.worker)

\* C28: fetching an attribute from a dependency binder sets the logger of
\* the owning repository adapter class to the binder's logger when the
\* attribute is a classmethod of an AbstractRepository subclass, and for
\* every other attribute (instance-bound methods and plain values included)
\* returns the attribute unchanged without raising.
C28_FetchInjectsOrReturns ==
    [][\A w \in Workers :
         (workers[w].pc = "idle" /\ workers'[w].pc # "idle")
         => IF workers'[w].asked.kind = "classmethod"
               /\ workers'[w].asked.owner \in RepositoryClasses
            THEN /\ workers'[w].pc = "fetched"
                 /\ workers'[w].held = workers'[w].asked
                 /\ repo_logger'[workers'[w].asked.owner] = WorkerLogger(w)
            ELSE /\ workers'[w].pc = "fetched"
                 /\ workers'[w].held = workers'[w].asked
                 /\ repo_logger' = repo_logger]_vars

\* ------------------------------------------- properties of the validator
\* C29: a machine passes validation only if at least one node has
\* is_terminal = true, and every machine with no terminal node is rejected
\* with NoTerminalNodeError.
C29_NoTerminalNoTerminalNodeError ==
    /\ Validated => terminal_nodes(nodes) # <<>>
    /\ ValidateRan /\ terminal_nodes(nodes) = <<>>
          => RejectedWith("NoTerminalNodeError")

\* C29 (amended): a machine passes validation only if at least one node has
\* is_terminal = true; a machine with none is always rejected, and with
\* NoTerminalNodeError when it has exactly one entry node (the entry-node
\* counts are checked first and raise their own errors).
C29_NoTerminalRejected ==
    /\ Validated => terminal_nodes(nodes) # <<>>
    /\ ValidateRan /\ terminal_nodes(nodes) = <<>>
          => /\ cls = "rejected"
             /\ Len(entry_nodes(nodes)) = 1
                   => RejectedWith("NoTerminalNodeError")

C29_Witness ==
    /\ RejectedWith("NoTerminalNodeError")
    /\ terminal_nodes(nodes) = <<>>
    /\ Len(entry_nodes(nodes)) = 1

\* ------------------------------------------- properties of the docstrings
\* The machine decorator has been applied to the class and has returned or
\* raised.
MachineApplied == cls \in {"defined", "rejected"}

\* C30: declaring a node, or defining a machine type, whose docstring is
\* missing raises MissingDocStringError, and one whose docstring has no
\* non-empty overview raises MissingOverviewError; for the machine this
\* comes before any graph validation, whatever the graph is.
C30_DocStringChecksFirst ==
    /\ fn.applied /\ ~fn.doc.present => fn.error = "MissingDocStringError"
    /\ fn.applied /\ fn.doc.present /\ fn.doc.overview = ""
          => fn.error = "MissingOverviewError"
    /\ MachineApplied /\ ~cls_doc.present
          => cls = "rejected" /\ cls_error = "MissingDocStringError"
    /\ MachineApplied /\ cls_doc.present /\ cls_doc.overview = ""
          => cls = "rejected" /\ cls_error = "MissingOverviewError"

\* ------------------------------- properties of the archive machine's graph
\* C31: MachineArchiveEncrypted as declared satisfies every validator
\* invariant and its type definition succeeds: every node has an exception
\* policy, the on_exception of every handle_exceptions node (the terminal
\* report_results included) is one of that node's unhappy_paths, the
\* terminal node has no exits, and the machine decorator does not reject
\* the class.
C31_ArchiveMachineValidates ==
    /\ \A n \in DOMAIN nodes : nodes[n].has_exception_handling # "unset"
    /\ \A n \in DOMAIN nodes :
          nodes[n].has_exception_handling = "true"
             => InSeq(nodes[n].on_exception, nodes[n].unhappy_paths)
    /\ \A n \in DOMAIN nodes : nodes[n].is_terminal => nodes[n].exits = <<>>
    /\ validate(nodes) = "ok"
    /\ cls # "rejected"

\* --------------------------------------------- properties of the barrier
\* The attributes of a node other than the two the exception policy sets
\* (wrapped stands for which function object the class holds).
DesignMetadata ==
    {"node_name", "is_entry", "is_terminal", "overview", "happy_paths", "unhappy_paths",
     "exits", "invokes_machine"}

\* C32: handle_exceptions leaves a node's design metadata unchanged: the
\* wrapped node has the name, is_entry, is_terminal, overview, happy_paths,
\* unhappy_paths, exits and invokes_machine of the original and adds only
\* on_exception and handles_exceptions = true, so the lists and the exits
\* the validator and the driver read are the same with and without it.
C32_BarrierKeepsMetadata ==
    [][\A n \in NodeNames :
          nodes'[n].wrapped /\ ~nodes[n].wrapped
             => /\ \A a \in DesignMetadata : nodes'[n][a] = nodes[n][a]
                /\ DOMAIN nodes'[n] = DOMAIN nodes[n]
                /\ nodes'[n].has_exception_handling = "true"
                /\ nodes'[n].on_exception \in NodeNames
                /\ \A k \in NodeNames \ {n} : nodes'[k] = nodes[k]
                /\ all_nodes(nodes') = all_nodes(nodes)
                /\ collected_exits(nodes') = collected_exits(nodes)
                /\ \A k \in NodeNames :
                      /\ check_exits(nodes', k) = check_exits(nodes, k)
                      /\ check_reachable_terminal(nodes', k)
                            = check_reachable_terminal(nodes, k)]_vars

C32_Witness ==
    \E n \in NodeNames :
       /\ nodes[n].wrapped
       /\ nodes[n].has_exception_handling = "true"
       /\ nodes[n].happy_paths # <<>>
       /\ nodes[n].unhappy_paths # <<>>
       /\ nodes[n].invokes_machine # ""

\* C33: every node of a validated machine carries exactly one exception
\* policy: its handles_exceptions flag is set, and is true exactly when the
\* node is wrapped by the barrier (exceptions of its body are caught and
\* routed to on_exception); no node of a validated machine is flagged
\* handles_exceptions = false and wrapped.
C33_ExactlyOnePolicy ==
    Validated
    => \A n \in NodeNames :
          /\ nodes[n].has_exception_handling # "unset"
          /\ nodes[n].has_exception_handling = "true" <=> nodes[n].wrapped

\* C34: in every machine that passes validation a node has empty exits if
\* and only if it is terminal: every non-terminal node declares at least
\* one happy or unhappy successor.
C34_EmptyExitsIffTerminal ==
    Validated
    => \A n \in NodeNames : nodes[n].exits = <<>> <=> nodes[n].is_terminal

\* --------------------------------- properties of doubly declared successors
\* Node n lists successor t both as a happy and as an unhappy path.
ListedTwice(n, t) == InSeq(t, nodes[n].happy_paths) /\ InSeq(t, nodes[n].unhappy_paths)

\* C35: a successor listed in both happy_paths and unhappy_paths of the same
\* node is accepted by the validator (a class with such a node that meets
\* the validator's other tests is defined), and the driver accepts a
\* transition to it carrying either a Success or a Failure: the Result is
\* appended and the successor becomes the current node.
C35_ListedTwiceAccepted ==
    /\ (/\ ValidateRan
        /\ \E n \in NodeNames, t \in NodeNames : ListedTwice(n, t)
        /\ CountsOk
        /\ ExitsOk
        /\ \A n \in NodeNames :
              /\ ~Undecorated(n)
              /\ ~HandlerNotUnhappy(n)
              /\ ~Unlisted(n)
              /\ ~TerminalWithPaths(n))
          => cls = "defined"
    /\ (/\ ReturnedTransition
        /\ last.ret.value.exit_to.kind = "node"
        /\ last.ret.value.exit_to.name \in NodeNames
        /\ ListedTwice(last.node, last.ret.value.exit_to.name))
          => /\ pc = "running"
             /\ current_node = last.ret.value.exit_to
             /\ results # <<>>
             /\ results[Len(results)] = last.ret.value.result

\* A Failure went down an edge declared both happy and unhappy.
C35_Witness ==
    /\ ReturnedTransition
    /\ last.ret.value.exit_to.kind = "node"
    /\ last.ret.value.exit_to.name \in NodeNames
    /\ ListedTwice(last.node, last.ret.value.exit_to.name)
    /\ last.ret.value.result.type = "Failure"
    /\ pc = "running"
    /\ Validated

\* ------------------------------------------ properties of the debug flag
\* The legality checks of the driver as made in a debug build: a value that
\* is not a Transition, a node that is not a declared exit, a Failure to a
\* node that is not an unhappy path and a Success to a node that is not a
\* happy path each make execute() raise IllegalTransitionError.
ChecksEnforced ==
    /\ (LastRan /\ ~last.ret.raised /\ last.ret.value.cls \notin {"Transition", "Exit"})
          => (pc = "raised" /\ error = "IllegalTransitionError")
    /\ (/\ ReturnedTransition
        /\ last.ret.value.exit_to.kind = "node"
        /\ \/ ~InSeq(last.ret.value.exit_to.name, LastMeta.exits)
           \/ /\ last.ret.value.result.type = "Failure"
              /\ ~InSeq(last.ret.value.exit_to.name, LastMeta.unhappy_paths)
           \/ /\ last.ret.value.result.type = "Success"
              /\ ~InSeq(last.ret.value.exit_to.name, LastMeta.happy_paths))
          => (pc = "raised" /\ error = "IllegalTransitionError")

\* C36: with the debug flag on, the Transition-type check, the declared-edge
\* check and the Success/Failure edge-kind checks are enforced at every
\* step; with it on or off an Exit returned by a node with declared exits
\* raises NotTerminalNodeError; with it off a machine whose graph is valid
\* still runs: an execute() call that has ended has invoked the entry node.
C36_DebugFlagGatesChecks ==
    /\ debug => ChecksEnforced
    /\ (LastRan /\ ~last.ret.raised /\ last.ret.value.cls = "Exit" /\ LastMeta.exits # <<>>)
          => (pc = "raised" /\ error = "NotTerminalNodeError")
    /\ (~debug /\ cls = "defined" /\ validate(nodes) = "ok" /\ pc \in {"returned", "raised"})
          => (invoked # <<>> /\ nodes[invoked[1]].is_entry)

\* --------------------------------------- properties of a failed execute()
\* C37: when execute() raises IllegalTransitionError or NotTerminalNodeError
\* at some step, the Result carried by the offending node's transition is
\* not appended and the target is not invoked: the last node invoked is the
\* offending one, and results holds what it held when the call began
\* followed by one Result for each node invoked before the offending one.
C37_RaiseAppendsNothing ==
    (pc = "raised" /\ error \in {"IllegalTransitionError", "NotTerminalNodeError"})
    => /\ invoked # <<>>
       /\ invoked[Len(invoked)] = last.node
       /\ Len(results) = base + Len(invoked) - 1
       /\ \A i \in 1..(Len(invoked) - 1) : results[base + i].node = QualifiedName(invoked[i])

\* The second node of a call returned a Transition that execute() refused.
C37_Witness ==
    /\ pc = "raised"
    /\ error = "IllegalTransitionError"
    /\ ReturnedTransition
    /\ Len(invoked) = 2
    /\ Len(results) = base + 1

\* ------------------------------------------------ properties of termination
\* The nodes named in the exits of n.
Successors(m, n) == {x \in NodeNames : InSeq(x, m[n].exits)}

\* No node of m is reached from its own exits: the exits graph has no cycle.
Acyclic(m) == \A n \in NodeNames : n \notin reachable(m, Successors(m, n))

\* The machines explored for termination: those of Machines in which each
\* node carries one policy decoration and report_results is the inherited
\* one; graphs with and without cycles, nodes with and without the barrier.
TerminationMachines ==
    { d \in Machines :
        /\ d["entry"].decor \in {"no_exceptions", "handle_exceptions"}
        /\ d["work"].decor = "handle_exceptions" => d["work"].x = "report_results"
        /\ d["report_results"].decor = "no_exceptions" }

InitTerminates ==
    /\ debug \in BOOLEAN
    /\ \E d \in TerminationMachines : nodes = [n \in NodeNames |-> Decorate(d[n])]
    /\ cls = "declared"
    /\ cls_error = ""
    /\ entry_node = ""
    /\ pc = "noinst"
    /\ error = ""
    /\ current_node = NodeRef("")
    /\ results = <<>>
    /\ calls = 0
    /\ base = 0
    /\ invoked = <<>>
    /\ last = NoStep
    /\ cls_doc = Documented
    /\ logged = {}
    /\ workers = IdleWorkers
    /\ repo_logger = UnsetLoggers
    /\ end_point = NoEndPoint
    /\ raising = {}
    /\ fn = NoFunction

\* execute() goes on to the next node as soon as a node body has returned:
\* the while loop takes its next step whenever there is one to take.
FairSpec == InitTerminates /\ [][Next]_vars /\ WF_vars(Step)

\* In an acyclic validated machine no node has been invoked twice in the
\* current call, and a call that has invoked as many nodes as the machine
\* has is over.
InvokesEachOnce ==
    (Validated /\ Acyclic(nodes))
    => /\ \A i, j \in 1..Len(invoked) : invoked[i] = invoked[j] => i = j
       /\ Len(invoked) <= Cardinality(NodeNames)
       /\ pc = "running" => Len(invoked) < Cardinality(NodeNames)

\* C38: for a validated machine whose declared exits graph is acyclic and
\* whose node bodies return, every execute() call terminates (returns or
\* raises) after invoking each node at most once, hence after at most as
\* many node invocations as the machine has nodes. (Termination is stated
\* for the first call of an instance, which the bound on the length of
\* results never cuts short.)
C38_AcyclicTerminates ==
    /\ []InvokesEachOnce
    /\ (pc = "running" /\ calls = 1 /\ Validated /\ Acyclic(nodes))
          ~> (pc \in {"returned", "raised"})

\* An acyclic machine returned after invoking every one of its nodes.
C38_Witness ==
    /\ Validated
    /\ Acyclic(nodes)
    /\ pc = "returned"
    /\ Len(invoked) = Cardinality(NodeNames)

\* ------------------------------------------------ properties of the start
\* C39: the first node every execute() call invokes is the machine's single
\* is_entry node, the one validation fixed at type definition; no run
\* starts at another node, and every execute() call on a defined machine
\* has an entry node to start from: it does not end before a node is
\* invoked.
C39_StartsAtEntryNode ==
    /\ invoked # <<>>
          => /\ nodes[invoked[1]].is_entry
             /\ invoked[1] = entry_node
             /\ entry_nodes(nodes) = <<entry_node>>
    /\ (cls = "defined" /\ pc \in {"returned", "raised"}) => invoked # <<>>

====
